---------------------------- MODULE Spec2Model ----------------------------
(***************************************************************************)
(* Location based services application: the spatial query views of        *)
(* geo/views.py over the Amenity, Area and Route tables of geo/models.py,  *)
(* and the import_routes management command that fills the Route table.    *)
(*                                                                         *)
(* Geometry is modelled on a small integer grid: a Point is <<lng, lat>>,  *)
(* an Area boundary is an axis-aligned rectangle (the single closed ring   *)
(* the tests build), a Route path is a sequence of grid points.  One grid  *)
(* unit stands for one kilometre, so that D(km=k) is k grid units.         *)
(*                                                                         *)
(* Text (query parameters) is a sequence of one-character strings, so     *)
(* that int() and float() are modelled by what they parse.                 *)
(***************************************************************************)
EXTENDS Integers, Sequences, FiniteSets, TLC

VARIABLES
    amenities,      \* rows of the Amenity table: [id, location]
    areas,          \* rows of the Area table: [id, boundary]
    routes,         \* rows of the Route table: [id, name, path]
    nextAmenityId,  \* primary key sequence of the Amenity table
    nextAreaId,     \* primary key sequence of the Area table
    nextRouteId,    \* primary key sequence of the Route table
    request,        \* the spatial query request being answered: [op, params]
    response,       \* its response: [status, detail, data]
    files,          \* import_routes: the GeoJSON files the command resolves
    reset,          \* import_routes: options["reset"] of the run
    pc,             \* import_routes: where the run is in handle()
    pos,            \* import_routes: [file, index, segment_idx], the loop variables
    imported,       \* import_routes: the imported counter
    skipped,        \* import_routes: the skipped counter
    stdout,         \* import_routes: the lines the run has written
    error,          \* import_routes: the CommandError that ended the run, or <<>>
    runs,           \* import_routes: how many runs were started
    previous        \* the Route table as it was when the run started

amenityVars == <<amenities, areas, nextAmenityId, nextAreaId>>
routeVars == <<routes, nextRouteId>>
httpVars == <<request, response>>
importVars == <<files, reset, pc, pos, imported, skipped, stdout, error, runs, previous>>

-----------------------------------------------------------------------------
(* Bounds of the model *)

MaxAmenityId == 2
MaxAreaId == 1

(* Program constants *)

MaxLimit == 100
DefaultLimitValue == 10

-----------------------------------------------------------------------------
(* Text *)

None == <<"<None>">>

Digits == {"0", "1", "2", "3", "4", "5", "6", "7", "8", "9"}

DigitVal(c) ==
    CASE c = "0" -> 0 [] c = "1" -> 1 [] c = "2" -> 2 [] c = "3" -> 3
      [] c = "4" -> 4 [] c = "5" -> 5 [] c = "6" -> 6 [] c = "7" -> 7
      [] c = "8" -> 8 [] c = "9" -> 9

DigitChar(d) ==
    CASE d = 0 -> "0" [] d = 1 -> "1" [] d = 2 -> "2" [] d = 3 -> "3"
      [] d = 4 -> "4" [] d = 5 -> "5" [] d = 6 -> "6" [] d = 7 -> "7"
      [] d = 8 -> "8" [] d = 9 -> "9"

IsDigits(s) == Len(s) > 0 /\ \A i \in 1..Len(s) : s[i] \in Digits

RECURSIVE DigitsValue(_)
DigitsValue(s) ==
    IF s = <<>> THEN 0
    ELSE 10 * DigitsValue(SubSeq(s, 1, Len(s) - 1)) + DigitVal(s[Len(s)])

RECURSIVE Pow10(_)
Pow10(k) == IF k = 0 THEN 1 ELSE 10 * Pow10(k - 1)

RECURSIVE NatText(_)
NatText(n) ==
    IF n < 10 THEN <<DigitChar(n)>>
    ELSE Append(NatText(n \div 10), DigitChar(n % 10))

(* str(pk) of a primary key, as the client puts it in the query string. *)
IdText(id) == NatText(id)

Unsigned(s) == IF Len(s) > 0 /\ s[1] \in {"-", "+"} THEN Tail(s) ELSE s
Sign(s) == IF Len(s) > 0 /\ s[1] = "-" THEN -1 ELSE 1

(* int(text): [ok, val]; ok is FALSE where Python raises TypeError (None)   *)
(* or ValueError (no digits, a non-digit character).                      *)
ParseInt(s) ==
    IF s # None /\ IsDigits(Unsigned(s))
    THEN [ok |-> TRUE, val |-> Sign(s) * DigitsValue(Unsigned(s))]
    ELSE [ok |-> FALSE, val |-> 0]

DotPositions(s) == {i \in 1..Len(s) : s[i] = "."}

(* float(text): [ok, num, den] with value num/den, den a power of ten.     *)
ParseFloat(s) ==
    LET body == Unsigned(s)
        dots == DotPositions(body)
    IN  IF s = None THEN [ok |-> FALSE, num |-> 0, den |-> 1]
        ELSE IF dots = {} THEN
            IF IsDigits(body)
            THEN [ok |-> TRUE, num |-> Sign(s) * DigitsValue(body), den |-> 1]
            ELSE [ok |-> FALSE, num |-> 0, den |-> 1]
        ELSE IF Cardinality(dots) = 1 THEN
            LET p == CHOOSE i \in dots : TRUE
                whole == SubSeq(body, 1, p - 1)
                frac == SubSeq(body, p + 1, Len(body))
            IN  IF /\ Len(whole) + Len(frac) > 0
                   /\ \A i \in 1..Len(whole) : whole[i] \in Digits
                   /\ \A i \in 1..Len(frac) : frac[i] \in Digits
                THEN [ok |-> TRUE,
                      num |-> Sign(s) * (DigitsValue(whole) * Pow10(Len(frac))
                                         + DigitsValue(frac)),
                      den |-> Pow10(Len(frac))]
                ELSE [ok |-> FALSE, num |-> 0, den |-> 1]
        ELSE [ok |-> FALSE, num |-> 0, den |-> 1]

(* request.query_params.get(key, default) *)
QueryParamsGet(params, key, default) ==
    IF key \in DOMAIN params THEN params[key] ELSE default

-----------------------------------------------------------------------------
(* Geometry: what the spatial database computes for the views' lookups *)

(* Point(lng, lat, srid=4326), coordinates being parsed floats. *)
Point(lng, lat) == [x |-> lng, y |-> lat]

(* Distance("location", origin), as the numerator of the squared distance   *)
(* over the common denominator (origin.x.den * origin.y.den)^2: for one     *)
(* origin it orders locations as the distance does.                         *)
DistanceKey(location, origin) ==
    LET dx == location[1] * origin.x.den - origin.x.num
        dy == location[2] * origin.y.den - origin.y.num
    IN  dx * dx * origin.y.den * origin.y.den
        + dy * dy * origin.x.den * origin.x.den

(* location__distance_lte=(origin, D(km=km)): distance <= km, a distance   *)
(* being >= 0, so that nothing is within a negative km.                     *)
DistanceLte(location, origin, km) ==
    /\ km.num >= 0
    /\ DistanceKey(location, origin) * km.den * km.den
         <= km.num * km.num * origin.x.den * origin.x.den
                            * origin.y.den * origin.y.den

(* location__within=boundary: ST_Within, the interior of the polygon. *)
Within(location, boundary) ==
    /\ boundary.minx < location[1] /\ location[1] < boundary.maxx
    /\ boundary.miny < location[2] /\ location[2] < boundary.maxy


(* A LineString segment p-q against the closed rectangle: ST_Intersects. *)
Cross(p, q, cx, cy) == (q[1] - p[1]) * (cy - p[2]) - (q[2] - p[2]) * (cx - p[1])

MinOf(a, b) == IF a <= b THEN a ELSE b
MaxOf(a, b) == IF a >= b THEN a ELSE b

SegmentIntersects(p, q, boundary) ==
    LET sides == {Cross(p, q, cx, cy) :
                    cx \in {boundary.minx, boundary.maxx},
                    cy \in {boundary.miny, boundary.maxy}}
    IN  /\ MaxOf(p[1], q[1]) >= boundary.minx /\ MinOf(p[1], q[1]) <= boundary.maxx
        /\ MaxOf(p[2], q[2]) >= boundary.miny /\ MinOf(p[2], q[2]) <= boundary.maxy
        /\ ~(\A c \in sides : c > 0)
        /\ ~(\A c \in sides : c < 0)

(* path__intersects=boundary *)
Intersects(path, boundary) ==
    \E i \in 1..(Len(path) - 1) : SegmentIntersects(path[i], path[i + 1], boundary)

-----------------------------------------------------------------------------
(* Query sets *)

(* The rows of a query set come in the order of its ORDER BY key; rows of  *)
(* equal key (every row, without ORDER BY) come in an order the database   *)
(* chooses, here the ranking `tie` of the primary keys.                     *)
Before(a, b, key, tie) ==
    \/ key[a] < key[b]
    \/ key[a] = key[b] /\ tie[a.id] < tie[b.id]

Ordered(rows, key, tie) ==
    LET placed == {<<1 + Cardinality({q \in rows : Before(q, r, key, tie)}), r>> :
                     r \in rows}
    IN  [i \in 1..Cardinality(rows) |-> (CHOOSE p \in placed : p[1] = i)[2]]

(* The orders the database may choose: any, for a small table; by primary  *)
(* key ascending or descending for a larger one.                            *)
TieRanks(ids) ==
    IF Cardinality(ids) <= MaxAmenityId
    THEN {f \in [ids -> 1..Cardinality(ids)] : \A i, j \in ids : f[i] = f[j] => i = j}
    ELSE {[i \in ids |-> i], [i \in ids |-> 0 - i]}

Ids(rows) == {r.id : r \in rows}

Unordered(rows, tie) == Ordered(rows, [r \in rows |-> 0], tie)

(* qs[:limit] *)
Slice(seq, limit) == SubSeq(seq, 1, MinOf(limit, Len(seq)))

-----------------------------------------------------------------------------
(* Responses *)

Ok(data) == [status |-> 200, detail |-> <<>>, data |-> data]

(* raise ValidationError(msg): HTTP 400 with the message, no result set.   *)
(* A message is the sequence of its words.                                  *)
ValidationError(msg) == [status |-> 400, detail |-> msg, data |-> <<>>]

(* An exception the view does not catch and that is no APIException:       *)
(* HTTP 500.                                                                *)
ServerError == [status |-> 500, detail |-> <<>>, data |-> <<>>]

MsgLatLng == <<"Query", "params", "lat", "and", "lng", "are", "required", "floats">>
MsgLimitInteger == <<"Query", "param", "limit", "must", "be", "a", "positive", "integer">>
MsgLimitZero == <<"Query", "param", "limit", "must", "be", "greater", "than", "zero">>
MsgAreaRequired == <<"Query", "param", "area_id", "is", "required">>
MsgAreaNotFound == <<"Area", "not", "found">>
MsgRadiusParams == <<"Params", "lat", "lng", "km", "are", "required", "floats">>

DefaultLimit == NatText(DefaultLimitValue)
DefaultKm == <<"1", ".", "0">>

-----------------------------------------------------------------------------
(* The spatial query views *)

(* limit = min(limit, 100) *)
ClampLimitUncapped(limit) == limit

ClampLimit(limit) == MinOf(limit, MaxLimit)

(* if limit <= 0: raise ValidationError *)
LimitRejectedNegativeOnly(limit) == limit < 0

LimitRejected(limit) == limit <= 0

(* Amenity.objects.annotate(distance=Distance("location", origin))          *)
(*        .order_by("distance")                                             *)
NearestQuerySet(rows, origin, tie) ==
    Ordered(rows, [r \in rows |-> DistanceKey(r.location, origin)], tie)

(* NearestAmenities.get *)
NearestAmenitiesView(params, tie) ==
    LET lat == ParseFloat(QueryParamsGet(params, "lat", None))
        lng == ParseFloat(QueryParamsGet(params, "lng", None))
        limit == ParseInt(QueryParamsGet(params, "limit", DefaultLimit))
    IN  IF ~lat.ok \/ ~lng.ok THEN ValidationError(MsgLatLng)
        ELSE IF ~limit.ok THEN ValidationError(MsgLimitInteger)
        ELSE IF LimitRejected(limit.val) THEN ValidationError(MsgLimitZero)
        ELSE Ok(Slice(NearestQuerySet(amenities, Point(lng, lat), tie),
                      ClampLimit(limit.val)))

(* Area.objects.get(pk=area_id): the row, Area.DoesNotExist, or the         *)
(* ValueError of a pk that is no number.                                    *)
AreaGet(area_id) ==
    LET pk == ParseInt(area_id)
    IN  IF ~pk.ok THEN [outcome |-> "ValueError"]
        ELSE IF \E a \in areas : a.id = pk.val
        THEN [outcome |-> "found", area |-> CHOOSE a \in areas : a.id = pk.val]
        ELSE [outcome |-> "DoesNotExist"]

(* Amenity.objects.filter(location__within=area.boundary) *)
WithinQuerySetUnfiltered(rows, boundary) == rows

WithinQuerySet(rows, boundary) == {r \in rows : Within(r.location, boundary)}

(* AmenitiesWithinArea.get *)
AmenitiesWithinAreaView(params, tie) ==
    LET area_id == QueryParamsGet(params, "area_id", None)
        got == AreaGet(area_id)
    IN  IF area_id = None \/ area_id = <<>> THEN ValidationError(MsgAreaRequired)
        ELSE IF got.outcome = "DoesNotExist" THEN ValidationError(MsgAreaNotFound)
        ELSE IF got.outcome = "ValueError" THEN ServerError
        ELSE Ok(Unordered(WithinQuerySet(amenities, got.area.boundary), tie))

(* Route.objects.filter(path__intersects=area.boundary) *)
IntersectingQuerySet(rows, boundary) == {r \in rows : Intersects(r.path, boundary)}

(* RoutesIntersectingArea.get *)
RoutesIntersectingAreaView(params, tie) ==
    LET area_id == QueryParamsGet(params, "area_id", None)
        got == AreaGet(area_id)
    IN  IF area_id = None \/ area_id = <<>> THEN ValidationError(MsgAreaRequired)
        ELSE IF got.outcome = "DoesNotExist" THEN ValidationError(MsgAreaNotFound)
        ELSE IF got.outcome = "ValueError" THEN ServerError
        ELSE Ok(Unordered(IntersectingQuerySet(routes, got.area.boundary), tie))

(* Amenity.objects.filter(location__distance_lte=(origin, D(km=km))) *)
RadiusQuerySet(rows, origin, km) ==
    {r \in rows : DistanceLte(r.location, origin, km)}

(* AmenitiesWithinRadius.get *)
AmenitiesWithinRadiusView(params, tie) ==
    LET lat == ParseFloat(QueryParamsGet(params, "lat", None))
        lng == ParseFloat(QueryParamsGet(params, "lng", None))
        km == ParseFloat(QueryParamsGet(params, "km", DefaultKm))
    IN  IF ~lat.ok \/ ~lng.ok \/ ~km.ok THEN ValidationError(MsgRadiusParams)
        ELSE Ok(Unordered(RadiusQuerySet(amenities, Point(lng, lat), km), tie))

-----------------------------------------------------------------------------
(* Inputs *)

TxtAbc == <<"a", "b", "c">>

(* Amenity locations and Area boundaries the writers choose from.  The     *)
(* point <<4, 2>> lies on the edge of BoundaryA and inside BoundaryB.       *)
AmenityLocations == {<<0, 1>>, <<2, 1>>, <<4, 2>>}

BoundaryA == [minx |-> 1, miny |-> 0, maxx |-> 4, maxy |-> 3]
BoundaryB == [minx |-> 3, miny |-> 1, maxx |-> 6, maxy |-> 4]
Boundaries == {BoundaryA, BoundaryB}

(* The query string: the keys given, each with its text. *)
QueryParams(given) == [k \in {k \in DOMAIN given : given[k] # None} |-> given[k]]

OriginInputs ==
    { [lat |-> None, lng |-> <<"1">>],
      [lat |-> <<"1">>, lng |-> TxtAbc],
      [lat |-> <<"1">>, lng |-> <<"2">>],
      [lat |-> <<"2">>, lng |-> <<"3", ".", "5">>] }

LimitInputs ==
    { None, TxtAbc, <<"0">>, <<"-", "1">>, <<"1">>, <<"2">>, NatText(MaxLimit + 1) }

KmInputs == { None, TxtAbc, <<"0">>, <<"-", "1">>, <<"2">>, <<"0", ".", "5">> }

AreaIdInputs == { None, <<>>, TxtAbc } \cup { IdText(i) : i \in 1..(MaxAreaId + 1) }

OptionalAreaIdInputs == { None, IdText(1) }

NoRequest == [op |-> "none", params |-> QueryParams([lat |-> None])]
NoResponse == [status |-> 0, detail |-> <<>>, data |-> <<>>]

-----------------------------------------------------------------------------
(* Actions: the spatial queries (GET, read-only).  The server answers one  *)
(* request at a time: a view runs when no exchange is open, and Deliver     *)
(* closes the exchange it opened.                                           *)

Idle == request = NoRequest

NearestAmenitiesGet ==
    \E o \in OriginInputs, l \in LimitInputs, a \in OptionalAreaIdInputs :
      \E tie \in TieRanks(Ids(amenities)) :
        LET params == QueryParams([lat |-> o.lat, lng |-> o.lng, limit |-> l, area_id |-> a])
        IN  /\ Idle
            /\ request' = [op |-> "nearest", params |-> params]
            /\ response' = NearestAmenitiesView(params, tie)
            /\ UNCHANGED <<amenityVars, routeVars, importVars>>

AmenitiesWithinAreaGet ==
    \E a \in AreaIdInputs :
      \E tie \in TieRanks(Ids(amenities)) :
        LET params == QueryParams([area_id |-> a])
        IN  /\ Idle
            /\ request' = [op |-> "within", params |-> params]
            /\ response' = AmenitiesWithinAreaView(params, tie)
            /\ UNCHANGED <<amenityVars, routeVars, importVars>>

RoutesIntersectingAreaGet ==
    \E a \in AreaIdInputs :
      \E tie \in TieRanks(Ids(routes)) :
        LET params == QueryParams([area_id |-> a])
        IN  /\ Idle
            /\ request' = [op |-> "intersecting", params |-> params]
            /\ response' = RoutesIntersectingAreaView(params, tie)
            /\ UNCHANGED <<amenityVars, routeVars, importVars>>

AmenitiesWithinRadiusGet ==
    \E o \in OriginInputs, k \in KmInputs, a \in OptionalAreaIdInputs :
      \E tie \in TieRanks(Ids(amenities)) :
        LET params == QueryParams([lat |-> o.lat, lng |-> o.lng, km |-> k, area_id |-> a])
        IN  /\ Idle
            /\ request' = [op |-> "radius", params |-> params]
            /\ response' = AmenitiesWithinRadiusView(params, tie)
            /\ UNCHANGED <<amenityVars, routeVars, importVars>>

-----------------------------------------------------------------------------
Deliver ==
    /\ ~Idle
    /\ request' = NoRequest
    /\ response' = NoResponse
    /\ UNCHANGED <<amenityVars, routeVars, importVars>>

-----------------------------------------------------------------------------
(* Actions: the CRUD view sets (an authenticated writer) *)

(* AmenityViewSet.create *)
AmenityCreate ==
    \E loc \in AmenityLocations :
        /\ Idle
        /\ nextAmenityId <= MaxAmenityId
        /\ amenities' = amenities \cup {[id |-> nextAmenityId, location |-> loc]}
        /\ nextAmenityId' = nextAmenityId + 1
        /\ UNCHANGED <<areas, nextAreaId, routeVars, httpVars, importVars>>

(* AmenityViewSet.update *)
AmenityUpdate ==
    \E row \in amenities, loc \in AmenityLocations :
        /\ Idle
        /\ loc # row.location
        /\ amenities' = (amenities \ {row}) \cup {[id |-> row.id, location |-> loc]}
        /\ UNCHANGED <<areas, nextAmenityId, nextAreaId, routeVars, httpVars, importVars>>

(* AmenityViewSet.destroy *)
AmenityDestroy ==
    \E row \in amenities :
        /\ Idle
        /\ amenities' = amenities \ {row}
        /\ UNCHANGED <<areas, nextAmenityId, nextAreaId, routeVars, httpVars, importVars>>

(* AreaViewSet.create *)
AreaCreate ==
    \E b \in Boundaries :
        /\ Idle
        /\ nextAreaId <= MaxAreaId
        /\ areas' = areas \cup {[id |-> nextAreaId, boundary |-> b]}
        /\ nextAreaId' = nextAreaId + 1
        /\ UNCHANGED <<amenities, nextAmenityId, routeVars, httpVars, importVars>>

(* AreaViewSet.destroy *)
AreaDestroy ==
    \E row \in areas :
        /\ Idle
        /\ areas' = areas \ {row}
        /\ UNCHANGED <<amenities, nextAmenityId, nextAreaId, routeVars, httpVars, importVars>>

-----------------------------------------------------------------------------
(* import_routes: GeoJSON and naming *)

(* A text built by an f-string is the sequence of its pieces. *)

(* feature.get(key) / properties.get(key): a missing key, null and the     *)
(* empty value are all falsy, here <<>>.                                    *)
Truthy(v) == v # <<>>

PropertiesGet(properties, key) ==
    IF key \in DOMAIN properties THEN properties[key] ELSE <<>>

TitleWord(w) ==
    CASE w = "routes" -> "Routes"
      [] w = "dublin" -> "Dublin"
      [] w = "coast" -> "Coast"

(* stem.replace('_', ' ').title(), the stem being its words between "_". *)
RECURSIVE Title(_)
Title(stem) ==
    IF Len(stem) = 0 THEN <<>>
    ELSE IF Len(stem) = 1 THEN <<TitleWord(stem[1])>>
    ELSE <<TitleWord(stem[1]), " ">> \o Title(Tail(stem))

(* geojson_path.name *)
RECURSIVE StemText(_)
StemText(stem) ==
    IF Len(stem) = 0 THEN <<>>
    ELSE IF Len(stem) = 1 THEN <<stem[1]>>
    ELSE <<stem[1], "_">> \o StemText(Tail(stem))

FileName(file) == StemText(file.stem) \o <<".geojson">>

(* feature.get("geometry") of a feature without one (null, or no key) *)
NullGeometry == [type |-> "null", coordinates |-> <<>>]

(* properties.get("Name") or properties.get("name") or the default *)
BaseName(file, feature, index) ==
    LET properties == feature.properties
    IN  IF Truthy(PropertiesGet(properties, "Name")) THEN PropertiesGet(properties, "Name")
        ELSE IF Truthy(PropertiesGet(properties, "name")) THEN PropertiesGet(properties, "name")
        ELSE Title(file.stem) \o <<" Feature ">> \o NatText(index)

(* The segments of a geometry: the coordinates of a LineString, the        *)
(* members of a MultiLineString that have at least 2 entries.               *)
LongEnough(coords) == Len(coords) >= 2

Segments(geometry) ==
    IF geometry.type = "LineString" THEN <<geometry.coordinates>>
    ELSE IF geometry.type = "MultiLineString"
    THEN SelectSeq(geometry.coordinates, LongEnough)
    ELSE <<>>

(* LineString(segment, srid=4326): TypeError unless every entry has the    *)
(* dimension of the first, 2 or 3.                                          *)
LineStringOkAnyArity(segment) == Len(segment) >= 1

LineStringOk(segment) ==
    /\ Len(segment[1]) \in {2, 3}
    /\ \A i \in 1..Len(segment) : Len(segment[i]) = Len(segment[1])

(* name = base_name, or f"{base_name} (Segment {segment_idx})" *)
RouteNameAlwaysSuffixed(base_name, segments, segment_idx) ==
    base_name \o <<" (Segment ">> \o NatText(segment_idx) \o <<")">>

RouteName(base_name, segments, segment_idx) ==
    IF Len(segments) > 1
    THEN base_name \o <<" (Segment ">> \o NatText(segment_idx) \o <<")">>
    ELSE base_name

(* Route.objects.update_or_create(name=name, defaults={"path": line}):     *)
(* [rows, nextId, created]                                                  *)
UpdateOrCreateAlwaysCreates(rows, nextId, name, line) ==
    [rows |-> rows \cup {[id |-> nextId, name |-> name, path |-> line]},
     nextId |-> nextId + 1,
     created |-> TRUE]

UpdateOrCreate(rows, nextId, name, line) ==
    IF \E r \in rows : r.name = name
    THEN [rows |-> {IF r.name = name THEN [r EXCEPT !.path = line] ELSE r : r \in rows},
          nextId |-> nextId,
          created |-> FALSE]
    ELSE [rows |-> rows \cup {[id |-> nextId, name |-> name, path |-> line]},
          nextId |-> nextId + 1,
          created |-> TRUE]

(* Lines of stdout *)
LineDeleted(n) ==
    [kind |-> "warning", text |-> <<"Deleted ">> \o NatText(n) \o <<" existing routes.">>]
LineNoFeatures(file) ==
    [kind |-> "warning", text |-> FileName(file) \o <<": no features found.">>]
LineUnsupported(file, index, type) ==
    [kind |-> "warning",
     text |-> FileName(file) \o <<" feature ">> \o NatText(index)
              \o <<": unsupported geometry ", type, ", skipping.">>]
LineRoute(created, name) ==
    [kind |-> "route",
     text |-> <<IF created THEN "Created" ELSE "Updated", " route: ">> \o name]

(* The summary line, with the skipped count when there is one. *)
Summary(n, k) ==
    <<"Imported or updated ">> \o NatText(n) \o <<" route segments">>
    \o (IF k # 0 THEN <<"; skipped ">> \o NatText(k) \o <<".">> ELSE <<".">>)

(* CommandError messages *)
ErrNoFiles == <<"No GeoJSON files found to import.">>
ErrNothingImported == <<"No routes were imported.">>
ErrSegment(file, index, segment_idx) ==
    FileName(file) \o <<" feature ">> \o NatText(index)
    \o <<" segment ">> \o NatText(segment_idx) \o <<": TypeError">>

-----------------------------------------------------------------------------
(* import_routes: Command.handle, one action per step of its loops.  Each  *)
(* write to the Route table is committed as it is made.                     *)

MaxRuns == 2

CurrentFile == files[pos.file]
CurrentFeature == CurrentFile.features[pos.index]
CurrentSegments == Segments(CurrentFeature.geometry)

(* if imported == 0 *)
NothingImportedOrOne(n) == n <= 1

NothingImported(n) == n = 0

(* Lines 63-94: resolve the files, reset, zero the counters. *)
ImportStart ==
    \E r \in BOOLEAN :
        /\ pc \in {"idle", "done"}
        /\ runs < MaxRuns
        /\ runs' = runs + 1
        /\ reset' = r
        /\ previous' = [ran |-> pc = "done", routes |-> routes]
        /\ imported' = 0
        /\ skipped' = 0
        /\ pos' = [file |-> 1, index |-> 0, segment_idx |-> 0]
        /\ IF Len(files) = 0
           THEN /\ pc' = "done"
                /\ error' = ErrNoFiles
                /\ stdout' = <<>>
                /\ UNCHANGED routes
           ELSE /\ pc' = "file"
                /\ error' = <<>>
                /\ IF r
                   THEN /\ routes' = {}
                        /\ stdout' = <<LineDeleted(Cardinality(routes))>>
                   ELSE /\ UNCHANGED routes
                        /\ stdout' = <<>>
        /\ UNCHANGED <<files, nextRouteId, amenityVars, httpVars>>

(* Lines 97-106: the next file, or the end of the files. *)
ImportFile ==
    /\ pc = "file"
    /\ IF pos.file > Len(files)
       THEN /\ pc' = "finish"
            /\ UNCHANGED <<pos, stdout>>
       ELSE IF Len(CurrentFile.features) = 0
       THEN /\ stdout' = Append(stdout, LineNoFeatures(CurrentFile))
            /\ pos' = [pos EXCEPT !.file = pos.file + 1]
            /\ UNCHANGED pc
       ELSE /\ pc' = "feature"
            /\ pos' = [pos EXCEPT !.index = 1]
            /\ UNCHANGED stdout
    /\ UNCHANGED <<files, reset, imported, skipped, error, runs, previous>>
    /\ UNCHANGED <<routeVars, amenityVars, httpVars>>

(* Lines 109-150: the next feature: skipped, or split into segments. *)
ImportFeature ==
    /\ pc = "feature"
    /\ IF pos.index > Len(CurrentFile.features)
       THEN /\ pc' = "file"
            /\ pos' = [pos EXCEPT !.file = pos.file + 1]
            /\ UNCHANGED <<skipped, stdout>>
       ELSE LET geometry == CurrentFeature.geometry
                skip == /\ skipped' = skipped + 1
                        /\ pos' = [pos EXCEPT !.index = pos.index + 1]
                        /\ UNCHANGED pc
            IN  IF geometry = NullGeometry THEN skip /\ UNCHANGED stdout
                ELSE IF ~Truthy(geometry.coordinates) THEN skip /\ UNCHANGED stdout
                ELSE IF geometry.type \notin {"LineString", "MultiLineString"}
                THEN /\ skip
                     /\ stdout' = Append(stdout,
                            LineUnsupported(CurrentFile, pos.index, geometry.type))
                ELSE IF Len(Segments(geometry)) = 0 THEN skip /\ UNCHANGED stdout
                ELSE /\ pc' = "segment"
                     /\ pos' = [pos EXCEPT !.segment_idx = 1]
                     /\ UNCHANGED <<skipped, stdout>>
    /\ UNCHANGED <<files, reset, imported, error, runs, previous>>
    /\ UNCHANGED <<routeVars, amenityVars, httpVars>>

(* Lines 153-181: the next segment: skipped, fatal, or upserted. *)
ImportSegment ==
    /\ pc = "segment"
    /\ IF pos.segment_idx > Len(CurrentSegments)
       THEN /\ pc' = "feature"
            /\ pos' = [pos EXCEPT !.index = pos.index + 1]
            /\ UNCHANGED <<routeVars, imported, skipped, stdout, error>>
       ELSE LET segment == CurrentSegments[pos.segment_idx]
                name == RouteName(BaseName(CurrentFile, CurrentFeature, pos.index),
                                  CurrentSegments, pos.segment_idx)
                done == UpdateOrCreate(routes, nextRouteId, name, segment)
            IN  IF Len(segment) < 2
                THEN /\ skipped' = skipped + 1
                     /\ pos' = [pos EXCEPT !.segment_idx = pos.segment_idx + 1]
                     /\ UNCHANGED <<pc, routeVars, imported, stdout, error>>
                ELSE IF ~LineStringOk(segment)
                THEN /\ pc' = "done"
                     /\ error' = ErrSegment(CurrentFile, pos.index, pos.segment_idx)
                     /\ UNCHANGED <<pos, routeVars, imported, skipped, stdout>>
                ELSE /\ routes' = done.rows
                     /\ nextRouteId' = done.nextId
                     /\ imported' = imported + 1
                     /\ stdout' = Append(stdout, LineRoute(done.created, name))
                     /\ pos' = [pos EXCEPT !.segment_idx = pos.segment_idx + 1]
                     /\ UNCHANGED <<pc, skipped, error>>
    /\ UNCHANGED <<files, reset, runs, previous>>
    /\ UNCHANGED <<amenityVars, httpVars>>

(* Lines 183-192: nothing imported is an error; else the summary. *)
ImportFinish ==
    /\ pc = "finish"
    /\ pc' = "done"
    /\ IF NothingImported(imported)
       THEN /\ error' = ErrNothingImported
            /\ UNCHANGED stdout
       ELSE /\ stdout' = Append(stdout,
                [kind |-> "summary",
                 text |-> Summary(imported, skipped)])
            /\ UNCHANGED error
    /\ UNCHANGED <<files, reset, pos, imported, skipped, runs, previous>>
    /\ UNCHANGED <<routeVars, amenityVars, httpVars>>

Import ==
    \/ ImportStart
    \/ ImportFile
    \/ ImportFeature
    \/ ImportSegment
    \/ ImportFinish

(* No import_routes run, and no files for one. *)
NoImport ==
    /\ files = <<>>
    /\ reset = FALSE
    /\ pc = "idle"
    /\ pos = [file |-> 1, index |-> 0, segment_idx |-> 0]
    /\ imported = 0
    /\ skipped = 0
    /\ stdout = <<>>
    /\ error = <<>>
    /\ runs = 0
    /\ previous = [ran |-> FALSE, routes |-> {}]

-----------------------------------------------------------------------------
(* Specifications *)

vars == <<amenityVars, routeVars, httpVars, importVars>>

(* The Route of the test fixture. *)
RiverWalk == [id |-> 1, name |-> <<"River Walk">>, path |-> <<<<1, 2>>, <<4, 2>>>>]

(* Empty Amenity and Area tables. *)
Init ==
    /\ amenities = {}
    /\ areas = {}
    /\ routes = {RiverWalk}
    /\ nextAmenityId = 1
    /\ nextAreaId = 1
    /\ nextRouteId = 2
    /\ request = NoRequest
    /\ response = NoResponse
    /\ NoImport

Query ==
    \/ NearestAmenitiesGet
    \/ AmenitiesWithinAreaGet
    \/ RoutesIntersectingAreaGet
    \/ AmenitiesWithinRadiusGet
    \/ Deliver

Next ==
    \/ Query
    \/ AmenityCreate
    \/ AmenityUpdate
    \/ AmenityDestroy
    \/ AreaCreate
    \/ AreaDestroy

Spec == Init /\ [][Next]_vars

(* A populated Amenity table, as creates in sequence leave it: sizes on    *)
(* both sides of the default limit and of the limit cap, one Area.          *)
BulkSizes == {2, DefaultLimitValue + 1, MaxLimit, MaxLimit + 1}

BulkLocation(i) == <<i % 6, (i \div 6) % 4>>

BulkAmenities(n) == {[id |-> i, location |-> BulkLocation(i)] : i \in 1..n}

InitBulk ==
    /\ \E n \in BulkSizes :
        /\ amenities = BulkAmenities(n)
        /\ nextAmenityId = n + 1
    /\ areas = {[id |-> 1, boundary |-> BoundaryA]}
    /\ routes = {RiverWalk}
    /\ nextAreaId = 2
    /\ nextRouteId = 2
    /\ request = NoRequest
    /\ response = NoResponse
    /\ NoImport

SpecBulk == InitBulk /\ [][Query]_vars

-----------------------------------------------------------------------------
(* import_routes: the GeoJSON files of a run *)

MaxFeatures == 2

LineA == <<<<1, 2>>, <<4, 2>>>>
LineB == <<<<0, 0>>, <<0, 1>>>>
LineC == <<<<5, 5>>, <<6, 5>>, <<6, 6>>>>
TooShort == <<<<2, 2>>>>
WrongArity == <<<<1, 1>>, <<2>>>>

NoProperties == [k \in {} |-> <<>>]

Features ==
    { \* no geometry
      [geometry |-> NullGeometry, properties |-> [Name |-> <<"A">>]],
      \* no coordinates
      [geometry |-> [type |-> "LineString", coordinates |-> <<>>],
       properties |-> [Name |-> <<"A">>]],
      \* an unsupported geometry type
      [geometry |-> [type |-> "Point", coordinates |-> <<1, 2>>],
       properties |-> [Name |-> <<"A">>]],
      \* a LineString; Name comes before name
      [geometry |-> [type |-> "LineString", coordinates |-> LineA],
       properties |-> [Name |-> <<"A">>, name |-> <<"B">>]],
      \* a LineString of one entry
      [geometry |-> [type |-> "LineString", coordinates |-> TooShort],
       properties |-> [Name |-> <<"B">>]],
      \* a LineString named as a segment of "A" is
      [geometry |-> [type |-> "LineString", coordinates |-> LineB],
       properties |-> [Name |-> <<"A", " (Segment ", "1", ")">>]],
      \* a MultiLineString with a short member between two segments
      [geometry |-> [type |-> "MultiLineString", coordinates |-> <<LineB, TooShort, LineC>>],
       properties |-> [Name |-> <<>>, name |-> <<"A">>]],
      \* a MultiLineString of one segment, without a name
      [geometry |-> [type |-> "MultiLineString", coordinates |-> <<TooShort, LineC>>],
       properties |-> NoProperties],
      \* a MultiLineString without segments
      [geometry |-> [type |-> "MultiLineString", coordinates |-> <<TooShort>>],
       properties |-> [name |-> <<"B">>]],
      \* a MultiLineString whose second segment has an entry of one number
      [geometry |-> [type |-> "MultiLineString", coordinates |-> <<LineA, WrongArity>>],
       properties |-> [name |-> <<"B">>]] }

FeatureLists(n) == UNION {[1..k -> Features] : k \in 0..n}

(* The files a run resolves, in the order of the sorted glob: none, one    *)
(* file of up to MaxFeatures features, or two files of at most one each.    *)
FileLists ==
    {<<>>}
    \cup {<<[stem |-> <<"routes", "dublin">>, features |-> fs]>> :
            fs \in FeatureLists(MaxFeatures)}
    \cup {<<[stem |-> <<"routes", "coast">>, features |-> fs],
            [stem |-> <<"routes", "dublin">>, features |-> gs]>> :
            fs \in FeatureLists(1), gs \in FeatureLists(1)}

InitImport ==
    /\ amenities = {}
    /\ areas = {}
    /\ routes = {RiverWalk}
    /\ nextAmenityId = 1
    /\ nextAreaId = 1
    /\ nextRouteId = 2
    /\ request = NoRequest
    /\ response = NoResponse
    /\ files \in FileLists
    /\ reset = FALSE
    /\ pc = "idle"
    /\ pos = [file |-> 1, index |-> 0, segment_idx |-> 0]
    /\ imported = 0
    /\ skipped = 0
    /\ stdout = <<>>
    /\ error = <<>>
    /\ runs = 0
    /\ previous = [ran |-> FALSE, routes |-> {}]

SpecImport == InitImport /\ [][Import]_vars

(* import_routes running beside the web server: the command and the views  *)
(* are separate processes on one database, no transaction spans the run's   *)
(* writes, so a view may read the Route table between any two steps.        *)
InitConcurrent ==
    /\ amenities = {}
    /\ areas = {[id |-> 1, boundary |-> BoundaryA]}
    /\ routes = {RiverWalk}
    /\ nextAmenityId = 1
    /\ nextAreaId = 2
    /\ nextRouteId = 2
    /\ request = NoRequest
    /\ response = NoResponse
    /\ files \in FileLists
    /\ reset = FALSE
    /\ pc = "idle"
    /\ pos = [file |-> 1, index |-> 0, segment_idx |-> 0]
    /\ imported = 0
    /\ skipped = 0
    /\ stdout = <<>>
    /\ error = <<>>
    /\ runs = 0
    /\ previous = [ran |-> FALSE, routes |-> {}]

Concurrent ==
    \/ Import
    \/ RoutesIntersectingAreaGet
    \/ Deliver

SpecConcurrent == InitConcurrent /\ [][Concurrent]_vars

-----------------------------------------------------------------------------
(* Properties of the spatial queries.  They read the exchange the state    *)
(* holds: the request, its response, and the tables as the view saw them.   *)

Range(seq) == {seq[i] : i \in DOMAIN seq}

Param(key) == QueryParamsGet(request.params, key, None)

(* The Area rows the request's area_id names. *)
NamedAreas == {a \in areas : IdText(a.id) = Param("area_id")}

RequestOrigin == Point(ParseFloat(Param("lng")), ParseFloat(Param("lat")))

OriginGiven == ParseFloat(Param("lat")).ok /\ ParseFloat(Param("lng")).ok

RequestKm == ParseFloat(QueryParamsGet(request.params, "km", DefaultKm))

NoDuplicates(seq) == \A i, j \in DOMAIN seq : seq[i] = seq[j] => i = j

(* C1: every amenity NearestAmenities returns for area_id=A lies inside    *)
(* A's boundary, that is, is in the result of AmenitiesWithinArea(A).       *)
C1_NearestWithinArea ==
    (request.op = "nearest" /\ response.status = 200) =>
        \A a \in NamedAreas : \A row \in Range(response.data) :
            Within(row.location, a.boundary)

(* C2: given valid lat and lng, AmenitiesWithinRadius rejects (HTTP 400,   *)
(* no result set) every km that is no number or is a number <= 0.           *)
C2_RadiusRejectsNonPositiveKm ==
    (/\ request.op = "radius"
     /\ OriginGiven
     /\ (~RequestKm.ok \/ RequestKm.num <= 0)) =>
        response.status = 400 /\ response.data = <<>>

(* C3: with an existing area_id=A, AmenitiesWithinRadius returns exactly   *)
(* the amenities within the radius of the origin and inside A's boundary.   *)
C3_RadiusAndArea ==
    (request.op = "radius" /\ response.status = 200) =>
        \A a \in NamedAreas :
            Range(response.data) =
                {row \in amenities :
                    /\ DistanceLte(row.location, RequestOrigin, RequestKm)
                    /\ Within(row.location, a.boundary)}

(* C4: for an integer limit >= 1, NearestAmenities returns at most         *)
(* min(limit, 100) stored amenities, in non-decreasing distance from the    *)
(* origin, and omits no amenity strictly nearer than one it returns.        *)
C4_NearestAtMostLimitSorted ==
    (/\ request.op = "nearest"
     /\ ParseInt(Param("limit")).ok
     /\ ParseInt(Param("limit")).val >= 1) =>
        LET data == response.data
            limit == ParseInt(Param("limit")).val
            Dist(row) == DistanceKey(row.location, RequestOrigin)
        IN  /\ Len(data) <= (IF limit <= 100 THEN limit ELSE 100)
            /\ Range(data) \subseteq amenities
            /\ NoDuplicates(data)
            /\ \A i \in 1..(Len(data) - 1) : Dist(data[i]) <= Dist(data[i + 1])
            /\ \A omitted \in amenities \ Range(data) : \A row \in Range(data) :
                   ~(Dist(omitted) < Dist(row))

(* C4 witness: a limit above 100 over more than 100 amenities: 100 rows. *)
C4_Witness ==
    /\ request.op = "nearest"
    /\ ParseInt(Param("limit")).ok
    /\ ParseInt(Param("limit")).val > 100
    /\ Cardinality(amenities) > 100
    /\ response.status = 200
    /\ Len(response.data) = 100

LimitInvalid ==
    /\ "limit" \in DOMAIN request.params
    /\ (~ParseInt(Param("limit")).ok \/ ParseInt(Param("limit")).val <= 0)

LimitFailure ==
    /\ response.status = 400
    /\ "limit" \in Range(response.detail)
    /\ response.data = <<>>

LimitDefaulted ==
    ("limit" \notin DOMAIN request.params /\ OriginGiven) =>
        /\ response.status = 200
        /\ Len(response.data) =
             (IF Cardinality(amenities) <= 10 THEN Cardinality(amenities) ELSE 10)

(* C5 as stated: every limit that is no integer or is an integer <= 0      *)
(* makes NearestAmenities fail with a message naming "limit"; an omitted    *)
(* limit is 10.                                                             *)
C5_Original ==
    request.op = "nearest" => (LimitInvalid => LimitFailure) /\ LimitDefaulted

(* C5 as amended: the same, for requests whose lat and lng parse as        *)
(* floats (lat and lng are validated first, with their own message).        *)
C5_LimitValidation ==
    request.op = "nearest" =>
        ((LimitInvalid /\ OriginGiven) => LimitFailure) /\ LimitDefaulted

(* C5 witness: limit=0 with a valid origin is rejected. *)
C5_Witness ==
    /\ request.op = "nearest"
    /\ OriginGiven
    /\ Param("limit") = <<"0">>
    /\ response.status = 400
    /\ response.detail = MsgLimitZero

(* C6: AmenitiesWithinArea and RoutesIntersectingArea reject (HTTP 400, no *)
(* result set) an area_id that is missing, empty or names no existing Area. *)
C6_AreaResolution ==
    (request.op \in {"within", "intersecting"} /\ NamedAreas = {}) =>
        response.status = 400 /\ response.data = <<>>

(* C7: AmenitiesWithinArea(A) returns exactly the stored amenities whose   *)
(* location is inside A's boundary, each once.                              *)
C7_WithinAreaExact ==
    request.op = "within" =>
        \A a \in NamedAreas :
            /\ response.status = 200
            /\ NoDuplicates(response.data)
            /\ Range(response.data) =
                 {row \in amenities :
                    /\ a.boundary.minx < row.location[1]
                    /\ row.location[1] < a.boundary.maxx
                    /\ a.boundary.miny < row.location[2]
                    /\ row.location[2] < a.boundary.maxy}

(* C7 witness: of two amenities, the one inside the area is returned and   *)
(* the one outside it is not.                                               *)
C7_Witness ==
    /\ request.op = "within"
    /\ NamedAreas # {}
    /\ response.status = 200
    /\ Len(response.data) = 1
    /\ Cardinality(amenities) = 2

-----------------------------------------------------------------------------
(* Properties of import_routes.  They read a finished run (pc = "done"):   *)
(* its files, its stdout, its error, and the Route table it leaves.         *)

(* The names of the run's "Created route:" and "Updated route:" lines. *)
RouteLines == SelectSeq(stdout, LAMBDA line : line.kind = "route")

UpsertedNames == [i \in 1..Len(RouteLines) |-> SubSeq(RouteLines[i].text, 3, Len(RouteLines[i].text))]

NameAndPath(rows) == {[name |-> r.name, path |-> r.path] : r \in rows}

(* The run went through every file (and there was one). *)
FilesProcessed == Len(files) > 0 /\ pos.file > Len(files)

(* C8: a second run on the same files without reset leaves the Route       *)
(* table as the run before it left it (names, paths, count), creates no     *)
(* record, and no two Route records ever share a name.                      *)
C8_ImportIdempotent ==
    /\ \A r1, r2 \in routes : r1.name = r2.name => r1 = r2
    /\ (pc = "done" /\ previous.ran /\ ~reset) =>
        /\ NameAndPath(routes) = NameAndPath(previous.routes)
        /\ Cardinality(routes) = Cardinality(previous.routes)
        /\ \A i \in 1..Len(RouteLines) : RouteLines[i].text[1] = "Updated"

(* C8 witness: a second run without reset that updated two routes. *)
C8_Witness ==
    /\ pc = "done"
    /\ previous.ran
    /\ ~reset
    /\ error = <<>>
    /\ imported >= 2
    /\ Cardinality(routes) >= 3

(* What the features of the files are to be stored as, in order: a         *)
(* feature of one segment under its base name, a MultiLineString of n > 1   *)
(* members of at least 2 pairs as "<base> (Segment k)", k = 1..n.           *)
ExpectedBase(file, feature, index) ==
    IF "Name" \in DOMAIN feature.properties /\ feature.properties["Name"] # <<>>
    THEN feature.properties["Name"]
    ELSE IF "name" \in DOMAIN feature.properties /\ feature.properties["name"] # <<>>
    THEN feature.properties["name"]
    ELSE Title(file.stem) \o <<" Feature ">> \o NatText(index)

ExpectedMembers(feature) ==
    LET g == feature.geometry
    IN  IF g.type = "LineString"
        THEN (IF Len(g.coordinates) >= 2 THEN <<g.coordinates>> ELSE <<>>)
        ELSE IF g.type = "MultiLineString"
        THEN SelectSeq(g.coordinates, LAMBDA member : Len(member) >= 2)
        ELSE <<>>

ExpectedOfFeature(file, index) ==
    LET feature == file.features[index]
        members == ExpectedMembers(feature)
        base == ExpectedBase(file, feature, index)
    IN  [k \in 1..Len(members) |->
            [name |-> IF Len(members) = 1 THEN base
                      ELSE base \o <<" (Segment ", DigitChar(k), ")">>,
             path |-> members[k]]]

RECURSIVE ExpectedOfFile(_, _)
ExpectedOfFile(file, upto) ==
    IF upto = 0 THEN <<>>
    ELSE ExpectedOfFile(file, upto - 1) \o ExpectedOfFeature(file, upto)

RECURSIVE ExpectedOfFiles(_)
ExpectedOfFiles(upto) ==
    IF upto = 0 THEN <<>>
    ELSE ExpectedOfFiles(upto - 1)
         \o ExpectedOfFile(files[upto], Len(files[upto].features))

ExpectedUpserts == ExpectedOfFiles(Len(files))

(* C9: the routes a finished run upserted are, in order, the expected      *)
(* ones (all of them, unless a segment fault ended the run), and the table  *)
(* holds one record per expected name, with the path written to it last.    *)
C9_SegmentNaming ==
    pc = "done" =>
        LET n == Len(UpsertedNames)
        IN  /\ n <= Len(ExpectedUpserts)
            /\ \A i \in 1..n : UpsertedNames[i] = ExpectedUpserts[i].name
            /\ error \in {<<>>, ErrNothingImported} => n = Len(ExpectedUpserts)
            /\ \A i \in 1..n :
                 /\ Cardinality({r \in routes : r.name = ExpectedUpserts[i].name}) = 1
                 /\ (\A j \in (i + 1)..n : ExpectedUpserts[j].name # ExpectedUpserts[i].name)
                      => [name |-> ExpectedUpserts[i].name, path |-> ExpectedUpserts[i].path]
                           \in NameAndPath(routes)

(* C9 witness: a run stored a MultiLineString's second segment as          *)
(* "A (Segment 2)" and a one-segment feature under its base name.           *)
C9_Witness ==
    /\ pc = "done"
    /\ error = <<>>
    /\ \E i \in 1..Len(UpsertedNames) : UpsertedNames[i] = <<"A", " (Segment ", "2", ")">>
    /\ \E i \in 1..Len(UpsertedNames) : UpsertedNames[i] = <<"A">>
    /\ [name |-> <<"A", " (Segment ", "2", ")">>, path |-> LineC] \in NameAndPath(routes)

ExpectedSummary ==
    <<"Imported or updated ">> \o NatText(Len(RouteLines)) \o <<" route segments">>
    \o (IF skipped = 0 THEN <<".">> ELSE <<"; skipped ">> \o NatText(skipped) \o <<".">>)

EndsWithSummary ==
    /\ error = <<>>
    /\ imported = Len(RouteLines)
    /\ Len(stdout) > 0
    /\ stdout[Len(stdout)] = [kind |-> "summary", text |-> ExpectedSummary]

NothingImportedIffZero ==
    error = ErrNothingImported <=> (FilesProcessed /\ imported = 0)

(* C10 as stated: a finished run ended with "No routes were imported" iff  *)
(* its counter was zero after all files; a run that upserted a route ended  *)
(* with the summary, whose count is the number of upserts.                  *)
C10_Original ==
    (pc = "done" /\ Len(files) > 0) =>
        /\ NothingImportedIffZero
        /\ Len(RouteLines) >= 1 => EndsWithSummary

(* C10 as amended: the summary is promised to a run that upserted a route  *)
(* and went through all its files (no segment fault ended it).              *)
C10_NothingImported ==
    (pc = "done" /\ Len(files) > 0) =>
        /\ NothingImportedIffZero
        /\ (Len(RouteLines) >= 1 /\ FilesProcessed) => EndsWithSummary

(* C10 witness: a run over two files that skipped twice and imported       *)
(* nothing ended with the error.                                            *)
C10_Witness ==
    /\ pc = "done"
    /\ Len(files) = 2
    /\ skipped = 2
    /\ imported = 0
    /\ error = ErrNothingImported

(* A segment of at least 2 entries whose coordinates are structurally      *)
(* invalid: an entry that is no pair or triple, or entries of mixed arity.  *)
Invalid(segment) ==
    /\ Len(segment) >= 2
    /\ \E i \in 1..Len(segment) :
          Len(segment[i]) \notin {2, 3} \/ Len(segment[i]) # Len(segment[1])

HasFault == \E i \in 1..Len(ExpectedUpserts) : Invalid(ExpectedUpserts[i].path)

(* The number of segments the run is to upsert: those before the first     *)
(* invalid one, or all of them.                                             *)
RunUpserts ==
    IF HasFault
    THEN (CHOOSE i \in 1..Len(ExpectedUpserts) :
            /\ Invalid(ExpectedUpserts[i].path)
            /\ \A j \in 1..(i - 1) : ~Invalid(ExpectedUpserts[j].path)) - 1
    ELSE Len(ExpectedUpserts)

(* The names and paths a table holds after the first n expected upserts. *)
RECURSIVE Stored(_, _)
Stored(rows, n) ==
    IF n = 0 THEN rows
    ELSE LET e == ExpectedUpserts[n]
         IN  {r \in Stored(rows, n - 1) : r.name # e.name}
             \cup {[name |-> e.name, path |-> e.path]}

(* The names and paths of the table as the run found it (after its reset). *)
RunBase == IF reset THEN {} ELSE NameAndPath(previous.routes)

(* C11: a run over files with a structurally invalid segment of at least 2 *)
(* entries ends with the fatal error of that segment; it upserted exactly   *)
(* the segments before it, nothing after it, printed no summary, and the    *)
(* table keeps every route upserted before the fault (no rollback).         *)
C11_AbortNoRollback ==
    (pc = "done" /\ Len(files) > 0 /\ HasFault) =>
        /\ error \notin {<<>>, ErrNothingImported}
        /\ pos.file \in 1..Len(files)
        /\ pos.index \in 1..Len(CurrentFile.features)
        /\ pos.segment_idx \in 1..Len(CurrentSegments)
        /\ error = ErrSegment(CurrentFile, pos.index, pos.segment_idx)
        /\ Invalid(CurrentSegments[pos.segment_idx])
        /\ CurrentSegments[pos.segment_idx] = ExpectedUpserts[RunUpserts + 1].path
        /\ UpsertedNames = [i \in 1..RunUpserts |-> ExpectedUpserts[i].name]
        /\ imported = RunUpserts
        /\ \A i \in 1..Len(stdout) : stdout[i].kind # "summary"
        /\ NameAndPath(routes) = Stored(RunBase, RunUpserts)

(* C11 witness: the first of two files has the invalid segment after a     *)
(* valid one; the run kept "B (Segment 1)" and never stored the second      *)
(* file's route.                                                            *)
C11_Witness ==
    /\ pc = "done"
    /\ Len(files) = 2
    /\ HasFault
    /\ pos.file = 1
    /\ Len(ExpectedUpserts) = 3
    /\ imported = 1
    /\ \E r \in routes : r.name = <<"B", " (Segment ", "1", ")">>
    /\ \A r \in routes : r.name # ExpectedUpserts[3].name

(* What a feature adds to the skipped total: one when it lacks geometry or *)
(* coordinates, one when its geometry type is unsupported, one for a        *)
(* LineString of fewer than 2 pairs, one for every MultiLineString member   *)
(* of fewer than 2 pairs.                                                   *)
SkipsOfFeature(feature) ==
    LET g == feature.geometry
    IN  IF g.type = "null" THEN 1
        ELSE IF g.coordinates = <<>> THEN 1
        ELSE IF g.type = "LineString" THEN (IF Len(g.coordinates) < 2 THEN 1 ELSE 0)
        ELSE IF g.type = "MultiLineString"
        THEN Cardinality({i \in 1..Len(g.coordinates) : Len(g.coordinates[i]) < 2})
        ELSE 1

RECURSIVE SkipsOfFile(_, _)
SkipsOfFile(file, upto) ==
    IF upto = 0 THEN 0
    ELSE SkipsOfFile(file, upto - 1) + SkipsOfFeature(file.features[upto])

RECURSIVE SkipsOfFiles(_)
SkipsOfFiles(upto) ==
    IF upto = 0 THEN 0
    ELSE SkipsOfFiles(upto - 1) + SkipsOfFile(files[upto], Len(files[upto].features))

(* C12: a run that went through all its files ends with a skipped total of *)
(* the features without geometry or coordinates, the features of an         *)
(* unsupported type, and every segment of fewer than 2 pairs, each          *)
(* MultiLineString member of fewer than 2 pairs counted once.               *)
C12_SkippedPerSegment ==
    (pc = "done" /\ FilesProcessed) => skipped = SkipsOfFiles(Len(files))

-----------------------------------------------------------------------------
(* Properties of a query beside a run of import_routes. *)

(* What RoutesIntersectingArea shows of a table of names and paths. *)
SeenIn(snapshot) ==
    {r \in snapshot : \A a \in NamedAreas : Intersects(r.path, a.boundary)}

(* The answer the exchange holds is the query over the table as it was     *)
(* before the run in progress, or as the run leaves it; with no run in      *)
(* progress, over the table as it is.                                       *)
SnapshotSeen ==
    LET seen == NameAndPath(Range(response.data))
    IN  IF pc \in {"idle", "done"}
        THEN seen = SeenIn(NameAndPath(routes))
        ELSE \/ seen = SeenIn(NameAndPath(previous.routes))
             \/ seen = SeenIn(Stored(RunBase, RunUpserts))

(* C13: what RoutesIntersectingArea answers while import_routes runs is    *)
(* the Route table with none of the run's writes (its reset, its upserts)   *)
(* or with all of them, never with only some.                               *)
C13_ConsistentSnapshot ==
    [][(request.op = "none" /\ request'.op = "intersecting" /\ response'.status = 200)
          => SnapshotSeen']_vars

=============================================================================
